---------------------------- MODULE Spec2Model ----------------------------
(***************************************************************************)
(* A model of the buddy command line tool (src/unnamed/part_000, the       *)
(* second program of that file, lines 308-1073, and src/src/config.ts).    *)
(*                                                                         *)
(* Strings are sequences of one-character strings, so that splitting,      *)
(* lower-casing, suffix removal and path joining are computed the way the  *)
(* code computes them.                                                     *)
(***************************************************************************)
EXTENDS Integers, Sequences, FiniteSets, TLC

(***************************************************************************)
(* String primitives (JavaScript String methods used by the code).         *)
(***************************************************************************)
Upper == <<"A","B","C","D","E","F","G","H","I","J","K","L","M",
           "N","O","P","Q","R","S","T","U","V","W","X","Y","Z">>

Lower == <<"a","b","c","d","e","f","g","h","i","j","k","l","m",
           "n","o","p","q","r","s","t","u","v","w","x","y","z">>

Digits == {"0","1","2","3","4","5","6","7","8","9"}

ToLowerChar(c) ==
    IF \E i \in 1..26 : Upper[i] = c
    THEN Lower[CHOOSE i \in 1..26 : Upper[i] = c]
    ELSE c

\* String.prototype.toLowerCase
ToLower(s) == [i \in 1..Len(s) |-> ToLowerChar(s[i])]

IsLetter(c) == \E i \in 1..26 : Upper[i] = c \/ Lower[i] = c

\* String.prototype.startsWith / endsWith
StartsWith(s, pre) ==
    /\ Len(pre) <= Len(s)
    /\ SubSeq(s, 1, Len(pre)) = pre

EndsWith(s, suf) ==
    /\ Len(suf) <= Len(s)
    /\ SubSeq(s, Len(s) - Len(suf) + 1, Len(s)) = suf

\* s.replace(/<suf>$/, ''): remove one trailing, case-sensitive suffix
StripSuffix(s, suf) ==
    IF EndsWith(s, suf) THEN SubSeq(s, 1, Len(s) - Len(suf)) ELSE s

\* String.prototype.indexOf, 1-based; 0 when sub does not occur
IndexOf(s, sub) ==
    LET hits == {i \in 1..(Len(s) - Len(sub) + 1) :
                    SubSeq(s, i, i + Len(sub) - 1) = sub}
    IN IF hits = {} THEN 0
       ELSE CHOOSE i \in hits : \A j \in hits : i <= j

\* String.prototype.includes
Includes(s, sub) == IndexOf(s, sub) # 0

\* String.prototype.split on a one-character separator: a sequence of strings
RECURSIVE Split(_, _)
Split(s, sep) ==
    LET i == IndexOf(s, <<sep>>)
    IN IF i = 0 THEN <<s>>
       ELSE <<SubSeq(s, 1, i - 1)>> \o Split(SubSeq(s, i + 1, Len(s)), sep)

\* Array.prototype.join
RECURSIVE JoinWith(_, _)
JoinWith(parts, sep) ==
    IF Len(parts) = 0 THEN <<>>
    ELSE IF Len(parts) = 1 THEN parts[1]
    ELSE parts[1] \o <<sep>> \o JoinWith(Tail(parts), sep)

\* Array.prototype.slice(1)
Slice1(parts) == IF Len(parts) = 0 THEN <<>> ELSE Tail(parts)

(***************************************************************************)
(* path.join of node's 'path' module (POSIX): the non-empty arguments are  *)
(* joined by '/' and the result is normalised: empty and '.' segments are  *)
(* dropped, '..' removes the segment before it, a trailing '/' is kept and *)
(* the empty result is '.'.                                                *)
(***************************************************************************)
RECURSIVE NormSegs(_, _, _)
NormSegs(segs, acc, abs) ==
    IF Len(segs) = 0 THEN acc
    ELSE LET h == Head(segs)
         IN IF h = <<>> \/ h = <<".">> THEN NormSegs(Tail(segs), acc, abs)
            ELSE IF h = <<".", ".">>
                 THEN IF Len(acc) > 0 /\ acc[Len(acc)] # <<".", ".">>
                      THEN NormSegs(Tail(segs), SubSeq(acc, 1, Len(acc) - 1), abs)
                      ELSE IF abs THEN NormSegs(Tail(segs), acc, abs)
                           ELSE NormSegs(Tail(segs), Append(acc, h), abs)
                 ELSE NormSegs(Tail(segs), Append(acc, h), abs)

normalize(p) ==
    IF Len(p) = 0 THEN <<".">>
    ELSE LET abs   == p[1] = "/"
             trail == p[Len(p)] = "/"
             body  == JoinWith(NormSegs(Split(p, "/"), <<>>, abs), "/")
         IN IF abs
            THEN IF Len(body) = 0 THEN <<"/">>
                 ELSE <<"/">> \o body \o (IF trail THEN <<"/">> ELSE <<>>)
            ELSE IF Len(body) = 0
                 THEN (IF trail THEN <<".", "/">> ELSE <<".">>)
                 ELSE body \o (IF trail THEN <<"/">> ELSE <<>>)

join2(a, b) ==
    IF Len(a) = 0 THEN normalize(b)
    ELSE IF Len(b) = 0 THEN normalize(a)
    ELSE normalize(a \o <<"/">> \o b)

join3(a, b, c) ==
    join2(a, IF Len(b) = 0 THEN c
             ELSE IF Len(c) = 0 THEN b
             ELSE b \o <<"/">> \o c)

(***************************************************************************)
(* String literals of the source.                                          *)
(***************************************************************************)
S_md == <<"m","d">>

S_txt == <<"t","x","t">>

S_dotgit == <<".","g","i","t">>

S_local == <<"l","o","c","a","l">>

S_unknown_repo == <<"u","n","k","n","o","w","n","-","r","e","p","o">>

S_unknown_agent == <<"u","n","k","n","o","w","n","-","a","g","e","n","t">>

S_pools == <<"p","o","o","l","s">>

S_commands == <<"c","o","m","m","a","n","d","s">>

S_shared == <<"s","h","a","r","e","d">>

S_dotbuddy == <<".","b","u","d","d","y">>

S_dotclaude == <<".","c","l","a","u","d","e">>

S_agents == <<"a","g","e","n","t","s">>

S_readme == <<"r","e","a","d","m","e">>

S_http == <<"h","t","t","p">>

S_https == <<"h","t","t","p","s">>

S_file == <<"f","i","l","e">>

S_git == <<"g","i","t">>

S_ssh == <<"s","s","h">>

S_ftp == <<"f","t","p">>

S_ws == <<"w","s">>

S_wss == <<"w","s","s">>

S_sep == <<":","/","/">>

\* os.homedir() and process.cwd() of the invocation
homedir == <<"/","h">>

cwd == <<"/","w">>

(***************************************************************************)
(* new URL(url) of the runtime, for the part the code reads: protocol and  *)
(* pathname.  The scheme is what precedes the first ':', it starts with a  *)
(* letter and is lower-cased; a special scheme other than file needs a     *)
(* non-empty host.  Query, fragment, port and user information are not     *)
(* modelled (no input of the model has them).                              *)
(***************************************************************************)
SpecialSchemes == {S_http, S_https, S_ftp, S_ws, S_wss, S_file}

RECURSIVE DropLeadingSlashes(_)
DropLeadingSlashes(s) ==
    IF Len(s) > 0 /\ s[1] = "/" THEN DropLeadingSlashes(Tail(s)) ELSE s

\* the part of s from its first '/' on ('' when it has none)
FromFirstSlash(s) ==
    LET i == IndexOf(s, <<"/">>)
    IN IF i = 0 THEN <<>> ELSE SubSeq(s, i, Len(s))

UpToFirstSlash(s) ==
    LET i == IndexOf(s, <<"/">>)
    IN IF i = 0 THEN s ELSE SubSeq(s, 1, i - 1)

URLFailure == [ok |-> FALSE, protocol |-> <<>>, pathname |-> <<>>]

ParseURL(url) ==
    LET i == IndexOf(url, <<":">>)
    IN IF i <= 1 THEN URLFailure
       ELSE
       LET raw    == SubSeq(url, 1, i - 1)
           scheme == ToLower(raw)
           rest   == SubSeq(url, i + 1, Len(url))
           okScheme ==
               /\ IsLetter(raw[1])
               /\ \A k \in 1..Len(raw) :
                     IsLetter(raw[k]) \/ raw[k] \in Digits \cup {"+", "-", "."}
       IN IF ~okScheme THEN URLFailure
          ELSE IF scheme \in SpecialSchemes \ {S_file}
          THEN LET auth == DropLeadingSlashes(rest)
                   host == UpToFirstSlash(auth)
                   path == FromFirstSlash(auth)
               IN IF Len(host) = 0 THEN URLFailure
                  ELSE [ok |-> TRUE, protocol |-> scheme \o <<":">>,
                        pathname |-> IF Len(path) = 0 THEN <<"/">> ELSE path]
          ELSE IF StartsWith(rest, <<"/", "/">>)
          THEN LET auth == SubSeq(rest, 3, Len(rest))
                   path == FromFirstSlash(auth)
               IN [ok |-> TRUE, protocol |-> scheme \o <<":">>,
                   pathname |-> IF Len(path) = 0 /\ scheme = S_file
                                THEN <<"/">> ELSE path]
          ELSE [ok |-> TRUE, protocol |-> scheme \o <<":">>, pathname |-> rest]

\* isUrl
isUrl(input) == Includes(input, S_sep)

\* extractRepoName: the last segment of the URL's path, less a trailing .git
extractRepoName(url) ==
    LET parsed == ParseURL(url)
    IN IF ~parsed.ok THEN S_unknown_repo
       ELSE LET pathParts == Split(parsed.pathname, "/")
                lastPart  == pathParts[Len(pathParts)]
            IN IF Len(lastPart) = 0 THEN S_unknown_repo
               ELSE StripSuffix(lastPart, S_dotgit)

\* validateUrlProtocol without the TLS requirement
validateUrlProtocolAllowHttp(url) ==
    LET parsed == ParseURL(url)
    IN IF ~parsed.ok THEN "Invalid URL format"
       ELSE IF parsed.protocol = S_git \o <<":">> \/ StartsWith(parsed.protocol, S_ssh)
            THEN "Not implemented yet"
       ELSE IF parsed.protocol \in {S_https \o <<":">>, S_file \o <<":">>,
                                    S_http \o <<":">>}
            THEN "ok"
       ELSE "Unsupported protocol"

\* validateUrlProtocol: "ok", or the reason of the rejection
validateUrlProtocol(url) ==
    LET parsed == ParseURL(url)
    IN IF ~parsed.ok THEN "Invalid URL format"
       ELSE IF parsed.protocol = S_http \o <<":">> THEN "TLS required, use HTTPS"
       ELSE IF parsed.protocol = S_git \o <<":">> \/ StartsWith(parsed.protocol, S_ssh)
            THEN "Not implemented yet"
       ELSE IF parsed.protocol = S_https \o <<":">> \/ parsed.protocol = S_file \o <<":">>
            THEN "ok"
       ELSE "Unsupported protocol"

\* normalizeUrl of addFromGitRepo: remove a trailing .git, then lower-case
normalizeUrl(u) == ToLower(StripSuffix(u, S_dotgit))

(***************************************************************************)
(* Path management.                                                        *)
(***************************************************************************)
getBuddyBasePath == join2(homedir, S_dotbuddy)

\* getRepoPaths(repoName).repoPath, and repoPath of getImportPaths
repoPathOf(repoName) == join3(getBuddyBasePath, S_pools, repoName)

(***************************************************************************)
(* JSON values as the code sees them.  t is the JavaScript type and v the  *)
(* string the value converts to in a template literal.                     *)
(***************************************************************************)
JUndefined == [t |-> "undefined", v |-> <<"u","n","d","e","f","i","n","e","d">>]

JNull == [t |-> "null", v |-> <<"n","u","l","l">>]

JString(s) == [t |-> "string", v |-> s]

JNumber(digits) == [t |-> "number", v |-> digits]

\* a ?? b
Nullish(a, b) == IF a.t \in {"undefined", "null"} THEN b ELSE a

\* if (x) ... on a string or an absent value
Truthy(a) == ~(a.t \in {"undefined", "null"}) /\ ~(a.t = "string" /\ Len(a.v) = 0)

(***************************************************************************)
(* BuddyConfig and loadBuddyConfigFrom (src/src/config.ts).  The resource  *)
(* <dir>/.buddy/config.json is absent, or holds text that is not JSON      *)
(* ("malformed"), or the JSON value null, or a JSON object whose fields    *)
(* are JSON values (JUndefined for a missing field).                       *)
(***************************************************************************)
BuddyConfig(agents, commands, context, extension) ==
    [agents |-> agents, commands |-> commands, context |-> context,
     extension |-> extension]

BuddyConfigNew ==
    BuddyConfig(JString(<<>>), JString(S_commands), JString(S_shared), JUndefined)

ResAbsent ==
    [kind |-> "absent", agents |-> JUndefined, commands |-> JUndefined,
     context |-> JUndefined, extension |-> JUndefined]

ResMalformed == [ResAbsent EXCEPT !.kind = "malformed"]

ResNull == [ResAbsent EXCEPT !.kind = "null"]

ResObject(agents, commands, context, extension) ==
    [kind |-> "object", agents |-> agents, commands |-> commands,
     context |-> context, extension |-> extension]

\* loadBuddyConfigFrom without the catch: a parse failure leaves no usable
\* configuration
loadBuddyConfigFromNoCatch(res) ==
    IF res.kind = "absent" THEN BuddyConfigNew
    ELSE IF res.kind \in {"malformed", "null"}
    THEN BuddyConfig(JUndefined, JUndefined, JUndefined, JUndefined)
    ELSE BuddyConfig(Nullish(res.agents, JString(<<>>)),
                     Nullish(res.commands, JString(S_commands)),
                     Nullish(res.context, JString(S_shared)),
                     res.extension)

loadBuddyConfigFrom(res) ==
    IF res.kind = "absent" THEN BuddyConfigNew
    ELSE IF res.kind = "malformed" THEN BuddyConfigNew   \* json() throws, caught
    ELSE IF res.kind = "null" THEN BuddyConfigNew        \* TypeError, caught
    ELSE BuddyConfig(Nullish(res.agents, JString(<<>>)),
                     Nullish(res.commands, JString(S_commands)),
                     Nullish(res.context, JString(S_shared)),
                     res.extension)

(***************************************************************************)
(* The file system.  fs is the set of the absolute paths of the regular    *)
(* files (their content is not modelled); ds is the set of directories     *)
(* that exist.  A path is looked up the way the operating system does it:  *)
(* empty and '.' components are skipped, '..' steps up from a directory    *)
(* that exists, and a path ending in '/' names no regular file.            *)
(***************************************************************************)
IsDirIn(fs, ds, d) ==
    \/ d \in ds
    \/ d = <<"/">>
    \/ \E f \in fs : StartsWith(f, d \o <<"/">>)

AbsOf(segs) == IF Len(segs) = 0 THEN <<"/">> ELSE <<"/">> \o JoinWith(segs, "/")

\* the canonical segments p resolves to, or <<<<>>>> when the lookup fails
RECURSIVE Walk(_, _, _, _)
Walk(fs, ds, segs, acc) ==
    IF Len(segs) = 0 THEN acc
    ELSE LET h == Head(segs)
         IN IF h = <<>> \/ h = <<".">> THEN Walk(fs, ds, Tail(segs), acc)
            ELSE IF h = <<".", ".">>
                 THEN IF ~IsDirIn(fs, ds, AbsOf(acc)) THEN <<<<>>>>
                      ELSE Walk(fs, ds, Tail(segs),
                                IF Len(acc) = 0 THEN acc
                                ELSE SubSeq(acc, 1, Len(acc) - 1))
                 ELSE Walk(fs, ds, Tail(segs), Append(acc, h))

\* Bun.file(p).exists() for an absolute path p
FileExistsIn(fs, ds, p) ==
    /\ Len(p) > 0
    /\ p[Len(p)] # "/"
    /\ LET w == Walk(fs, ds, Split(p, "/"), <<>>)
       IN w # <<<<>>>> /\ AbsOf(w) \in fs

\* the file a path that exists resolves to
Resolved(fs, ds, p) == AbsOf(Walk(fs, ds, Split(p, "/"), <<>>))

\* directoryExists: the scan of the directory succeeds
directoryExistsIn(fs, ds, p) ==
    LET w == Walk(fs, ds, Split(p, "/"), <<>>)
    IN w # <<<<>>>> /\ IsDirIn(fs, ds, AbsOf(w))

(***************************************************************************)
(* findAgentFile.  Candidates is the sequence of paths the function builds *)
(* in the order it tests them; the function stops at the first that        *)
(* exists.  NoFile is the null result.                                     *)
(***************************************************************************)
NoFile == <<>>

\* Candidates with .txt tried before .md in default mode
CandidatesTxtFirst(basePath, agentPath, extension) ==
    IF extension.t # "undefined"
    THEN << basePath \o <<"/">> \o agentPath \o <<".">> \o extension.v,
            basePath \o <<"/">> \o agentPath >>
    ELSE << basePath \o <<"/">> \o agentPath \o <<".">> \o S_txt,
            basePath \o <<"/">> \o agentPath \o <<".">> \o S_md,
            basePath \o <<"/">> \o agentPath >>

\* Candidates falling back to .md after the configured extension
CandidatesExtThenMd(basePath, agentPath, extension) ==
    IF extension.t # "undefined"
    THEN << basePath \o <<"/">> \o agentPath \o <<".">> \o extension.v,
            basePath \o <<"/">> \o agentPath \o <<".">> \o S_md,
            basePath \o <<"/">> \o agentPath >>
    ELSE << basePath \o <<"/">> \o agentPath \o <<".">> \o S_md,
            basePath \o <<"/">> \o agentPath \o <<".">> \o S_txt,
            basePath \o <<"/">> \o agentPath >>

Candidates(basePath, agentPath, extension) ==
    IF extension.t # "undefined"
    THEN << basePath \o <<"/">> \o agentPath \o <<".">> \o extension.v,
            basePath \o <<"/">> \o agentPath >>
    ELSE << basePath \o <<"/">> \o agentPath \o <<".">> \o S_md,
            basePath \o <<"/">> \o agentPath \o <<".">> \o S_txt,
            basePath \o <<"/">> \o agentPath >>

\* index of the first candidate that exists, 0 when none does
FirstHit(fs, ds, cands) ==
    LET hits == {i \in 1..Len(cands) : FileExistsIn(fs, ds, cands[i])}
    IN IF hits = {} THEN 0 ELSE CHOOSE i \in hits : \A j \in hits : i <= j

\* [path: the result, checked: the paths whose existence was tested, in order]
findAgentFile(fs, ds, basePath, agentPath, extension) ==
    LET cands == Candidates(basePath, agentPath, extension)
        k     == FirstHit(fs, ds, cands)
    IN IF k = 0 THEN [path |-> NoFile, checked |-> cands]
       ELSE [path |-> cands[k], checked |-> SubSeq(cands, 1, k)]

\* parseImportSource
parseImportSource(source) ==
    LET parts == Split(source, "/")
    IN [repoName  |-> IF Len(parts[1]) = 0 THEN S_unknown_repo ELSE parts[1],
        agentPath |-> JoinWith(Slice1(parts), "/"),
        filename  |-> IF Len(parts[Len(parts)]) = 0 THEN S_unknown_agent
                      ELSE parts[Len(parts)]]


(***************************************************************************)
(* Bounds and input sets of the model.                                     *)
(***************************************************************************)
\* most regular files the environment keeps in existence at a time
MaxFiles == 2

\* most changes an external actor makes to the files an invocation uses
\* between its existence checks and its read or write
MaxInterference == 1

PoolR == <<"r">>

AgentX == <<"x">>

DirA == <<"a">>

ExtFoo == <<"f","o","o">>

\* a directory field that steps out of the pool: ../local
DirUp == <<".", ".", "/">> \o S_local

\* the references given to import and tool
Sources == { PoolR \o <<"/">> \o AgentX,
             S_local \o <<"/">> \o AgentX,
             PoolR \o <<"/">> }

\* the contents the environment gives to pools/r/.buddy/config.json
ConfigResources ==
    { ResAbsent, ResMalformed, ResNull,
      ResObject(JUndefined, JUndefined, JUndefined, JString(ExtFoo)),
      ResObject(JString(DirA), JUndefined, JUndefined, JString(ExtFoo)),
      ResObject(JUndefined, JUndefined, JNumber(<<"5">>), JUndefined),
      ResObject(JString(DirUp), JUndefined, JUndefined, JUndefined) }

WithExt(path, ext) == path \o <<".">> \o ext

\* the regular files the environment creates and removes
ResolveFiles ==
    LET P == repoPathOf(PoolR)
        L == repoPathOf(S_local)
    IN { WithExt(join2(P, AgentX), S_md), WithExt(join2(P, AgentX), S_txt),
         join2(P, AgentX), WithExt(join2(P, AgentX), ExtFoo),
         join3(P, DirA, AgentX),
         WithExt(join3(P, S_shared, AgentX), S_md),
         WithExt(join3(P, S_shared, AgentX), S_txt),
         WithExt(join2(L, AgentX), S_md),
         WithExt(join3(L, S_shared, AgentX), S_md),
         WithExt(join2(cwd, AgentX), S_md) }

(***************************************************************************)
(* State.                                                                  *)
(***************************************************************************)
VARIABLES
    files,       \* the regular files that exist (absolute paths)
    dirs,        \* the directories that exist besides the ancestors of files
    cfgRes,      \* pool name -> content of <pool>/.buddy/config.json
    origin,      \* directory with a .git/config -> its remote.origin.url
    pc,          \* position of the running invocation, "idle" between two
    cmd,         \* the command line of the running invocation
    checked,     \* paths whose existence findAgentFile has tested, in order
    sourcePath,  \* result of findAgentFile
    destPath,    \* destination computed by getImportPaths
    stdout,      \* records written by console.log
    stderr,      \* records written by console.error
    exit,        \* exit status of the process, -1 while it runs
    gitCalls,    \* git commands the invocation has run
    writes,      \* paths the invocation has written
    raced        \* changes made by the external actor during the invocation

vars == <<files, dirs, cfgRes, origin, pc, cmd, checked, sourcePath, destPath,
          stdout, stderr, exit, gitCalls, writes, raced>>

fsVars == <<files, dirs, cfgRes, origin>>

NoCmd == [kind |-> "none"]

\* a line of plain text, and a JSON record {key: ...} of toolCommand
Out(tag, list) == [key |-> "", tag |-> tag, list |-> list]

Json(key, tag, list) == [key |-> key, tag |-> tag, list |-> list]

Init ==
    /\ files = {}
    /\ dirs = {}
    /\ cfgRes = [n \in {PoolR, S_local} |-> ResAbsent]
    /\ origin = <<>>
    /\ pc = "idle"
    /\ cmd = NoCmd
    /\ checked = <<>>
    /\ sourcePath = NoFile
    /\ destPath = NoFile
    /\ stdout = <<>>
    /\ stderr = <<>>
    /\ exit = -1
    /\ gitCalls = <<>>
    /\ writes = <<>>
    /\ raced = 0

FileExists(p) == FileExistsIn(files, dirs, p)

directoryExists(p) == directoryExistsIn(files, dirs, p)

ConfigAt(repoName) ==
    IF repoName \in DOMAIN cfgRes THEN cfgRes[repoName] ELSE ResAbsent

(***************************************************************************)
(* The environment: another process creates or removes a file, or writes   *)
(* a pool's configuration resource.  While an invocation is between its    *)
(* existence checks and its read or write, only changes to the files that  *)
(* invocation uses are modelled.                                           *)
(***************************************************************************)
Located == pc \in {"importLocated", "toolLocated"}

EnvCreateFile(f) ==
    /\ f \notin files
    /\ Cardinality(files) < MaxFiles
    /\ \/ pc = "idle" /\ raced' = raced
       \/ /\ pc = "importLocated"
          /\ f = destPath
          /\ raced < MaxInterference
          /\ raced' = raced + 1
    /\ files' = files \cup {f}
    /\ UNCHANGED <<dirs, cfgRes, origin, pc, cmd, checked, sourcePath, destPath,
                   stdout, stderr, exit, gitCalls, writes>>

EnvRemoveFile(f) ==
    /\ f \in files
    /\ \/ pc = "idle" /\ raced' = raced
       \/ /\ Located
          /\ f \in {Resolved(files, dirs, sourcePath), destPath}
          /\ raced < MaxInterference
          /\ raced' = raced + 1
    /\ files' = files \ {f}
    /\ UNCHANGED <<dirs, cfgRes, origin, pc, cmd, checked, sourcePath, destPath,
                   stdout, stderr, exit, gitCalls, writes>>

EnvWriteConfig(pool, res) ==
    /\ pc = "idle"
    /\ cfgRes[pool] # res
    /\ cfgRes' = [cfgRes EXCEPT ![pool] = res]
    /\ UNCHANGED <<files, dirs, origin, pc, cmd, checked, sourcePath, destPath,
                   stdout, stderr, exit, gitCalls, writes, raced>>

\* the process has ended; the shell is ready for the next command
Exit ==
    /\ pc = "done"
    /\ pc' = "idle"
    /\ cmd' = NoCmd
    /\ checked' = <<>>
    /\ sourcePath' = NoFile
    /\ destPath' = NoFile
    /\ stdout' = <<>>
    /\ stderr' = <<>>
    /\ exit' = -1
    /\ gitCalls' = <<>>
    /\ writes' = <<>>
    /\ raced' = 0
    /\ UNCHANGED fsVars

(***************************************************************************)
(* import.  importCommand parses the reference, applies the README check   *)
(* and calls importToClaudePersonal or importLocalAgent; both call         *)
(* getImportPaths[WithConfig], which loads the pool's configuration and    *)
(* runs findAgentFile, and report the candidates when nothing was found.   *)
(* ImportLocate is the handler up to that point, ImportCopy the rest       *)
(* (destination check, prompt, copyFile).                                  *)
(***************************************************************************)
\* destPath with the project flag looked at first
ImportDestProjectFirst(filename, personal, project) ==
    IF project
    THEN join3(join2(cwd, S_dotclaude), S_agents, WithExt(filename, S_md))
    ELSE IF personal
    THEN join3(join2(homedir, S_dotclaude), S_agents, WithExt(filename, S_md))
    ELSE join2(cwd, WithExt(filename, S_md))

\* destPath of getImportPathsWithConfig (getImportPaths when personal is false)
ImportDest(filename, personal, project) ==
    IF personal
    THEN join3(join2(homedir, S_dotclaude), S_agents, WithExt(filename, S_md))
    ELSE IF project
    THEN join3(join2(cwd, S_dotclaude), S_agents, WithExt(filename, S_md))
    ELSE join2(cwd, WithExt(filename, S_md))

\* the list after "Tried:" in the message of importLocalAgent and
\* importToClaudePersonal
ImportTried(config, agentPath) ==
    LET fullPath == IF Truthy(config.agents)
                    THEN join2(config.agents.v, agentPath)
                    ELSE agentPath
    IN IF config.extension.t # "undefined"
       THEN << WithExt(fullPath, config.extension.v), fullPath >>
       ELSE << WithExt(fullPath, S_md), WithExt(fullPath, S_txt), fullPath >>

\* the list after "Tried:" in the error record of toolCommand
ToolTried(config, agentPath) ==
    LET fullPath == agentPath
    IN IF config.extension.t # "undefined"
       THEN << WithExt(fullPath, config.extension.v), fullPath >>
       ELSE << WithExt(fullPath, S_md), WithExt(fullPath, S_txt), fullPath >>

\* the configuration an invocation resolves with: toolCommand uses no
\* configuration for the pool named local, import loads it for every pool
EffectiveConfig(kind, repoName) ==
    IF kind = "tool" /\ repoName = S_local
    THEN [BuddyConfigNew EXCEPT !.extension = JUndefined]
    ELSE loadBuddyConfigFrom(ConfigAt(repoName))

\* the directory findAgentFile searches: agentBasePath of getImportPaths,
\* contextPath of toolCommand
SearchBase(kind, repoName, config) ==
    IF kind = "tool"
    THEN IF repoName = S_local
         THEN join3(join2(getBuddyBasePath, S_pools), S_local, S_shared)
         ELSE join2(repoPathOf(repoName), config.context.v)
    ELSE join2(repoPathOf(repoName), config.agents.v)

Finish(out, err, status) ==
    /\ pc' = "done"
    /\ stdout' = stdout \o out
    /\ stderr' = stderr \o err
    /\ exit' = status

\* the README check comparing the name as it is written
isReadmeCaseSensitive(filename) == filename = S_readme

\* the README check of importCommand
isReadme(filename) == ToLower(filename) = S_readme

ImportLocate(source, personal, project, force) ==
    /\ pc = "idle"
    /\ Cardinality(files) <= MaxFiles
    /\ cmd' = [kind |-> "import", source |-> source, personal |-> personal,
               project |-> project, force |-> force]
    /\ LET parsed == parseImportSource(source)
           config == EffectiveConfig("import", parsed.repoName)
       IN IF ~force /\ isReadme(parsed.filename)
          THEN \* refused before anything is loaded or tested
               /\ Finish(<<Out("use --force", <<>>)>>,
                         <<Out("Really? A README file?", <<>>)>>, 1)
               /\ UNCHANGED <<checked, sourcePath, destPath>>
          ELSE IF config.agents.t # "string"
          THEN \* path.join throws a TypeError outside of any try block
               /\ Finish(<<>>, <<Out("uncaught TypeError", <<>>)>>, 1)
               /\ UNCHANGED <<checked, sourcePath, destPath>>
          ELSE LET found == findAgentFile(files, dirs,
                                          SearchBase("import", parsed.repoName, config),
                                          parsed.agentPath, config.extension)
               IN /\ checked' = found.checked
                  /\ sourcePath' = found.path
                  /\ destPath' = ImportDest(parsed.filename, personal, project)
                  /\ IF found.path = NoFile
                     THEN \* console.error and return: the process ends normally
                          Finish(<<>>,
                                 <<Out("Agent file not found. Tried",
                                       ImportTried(config, parsed.agentPath))>>, 0)
                     ELSE /\ pc' = "importLocated"
                          /\ UNCHANGED <<stdout, stderr, exit>>
    /\ UNCHANGED <<fsVars, gitCalls, writes, raced>>

\* answer: the reply to promptOverwrite; writeOk: whether Bun.write succeeds
ImportCopy(answer, writeOk) ==
    /\ pc = "importLocated"
    /\ IF FileExists(destPath) /\ ~answer
       THEN /\ Finish(<<Out("Operation cancelled", <<>>)>>, <<>>, 0)
            /\ UNCHANGED <<files, writes>>
       ELSE IF ~FileExists(sourcePath) \/ ~writeOk
       THEN \* copyFile throws; the catch block reports and returns
            /\ Finish(<<>>, <<Out("Failed to copy file", <<>>)>>, 0)
            /\ UNCHANGED <<files, writes>>
       ELSE /\ files' = files \cup {destPath}
            /\ writes' = Append(writes, destPath)
            /\ Finish(<<Out("Imported", <<destPath>>)>>, <<>>, 0)
    /\ UNCHANGED <<dirs, cfgRes, origin, cmd, checked, sourcePath, destPath,
                   gitCalls, raced>>

(***************************************************************************)
(* tool.  ToolLocate is toolCommand up to and including findAgentFile and  *)
(* the not-found report, ToolRead the read of the file and the output.     *)
(***************************************************************************)
ToolLocate(source) ==
    /\ pc = "idle"
    /\ Cardinality(files) <= MaxFiles
    /\ cmd' = [kind |-> "tool", source |-> source, personal |-> FALSE,
               project |-> FALSE, force |-> FALSE]
    /\ LET parsed == parseImportSource(source)
           isLocal == parsed.repoName = S_local
           config == EffectiveConfig("tool", parsed.repoName)
       IN IF ~isLocal /\ config.context.t # "string"
          THEN \* path.join throws inside the try block
               /\ Finish(<<>>, <<Json("error", "Failed to read context file", <<>>)>>, 1)
               /\ UNCHANGED <<checked, sourcePath>>
          ELSE LET contextPath == SearchBase("tool", parsed.repoName, config)
                   found == findAgentFile(files, dirs, contextPath,
                                          parsed.agentPath, config.extension)
               IN /\ checked' = found.checked
                  /\ sourcePath' = found.path
                  /\ IF found.path = NoFile
                     THEN Finish(<<>>,
                                 <<Json("error", "Context file not found. Tried",
                                        ToolTried(config, parsed.agentPath))>>, 1)
                     ELSE /\ pc' = "toolLocated"
                          /\ UNCHANGED <<stdout, stderr, exit>>
    /\ UNCHANGED <<fsVars, destPath, gitCalls, writes, raced>>

\* ToolRead with the failure of the read not caught: no record is written
ToolReadUncaught ==
    /\ pc = "toolLocated"
    /\ IF FileExists(sourcePath)
       THEN Finish(<<Json("content", "", <<sourcePath>>)>>, <<>>, 0)
       ELSE Finish(<<>>, <<>>, 1)
    /\ UNCHANGED <<fsVars, cmd, checked, sourcePath, destPath, gitCalls, writes,
                   raced>>

ToolRead ==
    /\ pc = "toolLocated"
    /\ IF FileExists(sourcePath)
       THEN Finish(<<Json("content", "", <<sourcePath>>)>>, <<>>, 0)
       ELSE Finish(<<>>, <<Json("error", "Failed to read context file", <<>>)>>, 1)
    /\ UNCHANGED <<fsVars, cmd, checked, sourcePath, destPath, gitCalls, writes,
                   raced>>

NextResolve ==
    \/ \E f \in ResolveFiles : EnvCreateFile(f)
    \/ \E f \in files : EnvRemoveFile(f)
    \/ \E res \in ConfigResources : EnvWriteConfig(PoolR, res)
    \/ \E s \in Sources, personal \in BOOLEAN, project \in BOOLEAN :
          ImportLocate(s, personal, project, FALSE)
    \/ \E answer \in BOOLEAN, writeOk \in BOOLEAN : ImportCopy(answer, writeOk)
    \/ \E s \in Sources : ToolLocate(s)
    \/ ToolRead
    \/ Exit

SpecResolve == Init /\ [][NextResolve]_vars

(***************************************************************************)
(* add.  addCommand routes the invocation to addFromUrl (addFromGitRepo or *)
(* addFromLocalFile) or to one of the four copies from a Claude directory  *)
(* into the local pool.  Nothing else runs between its checks and its      *)
(* effects in the model, so the handler is one action.                     *)
(***************************************************************************)
\* most pool directories in existence at a time
MaxPools == 2

\* the value of remote.origin.url of a repository that has no origin
NoOrigin == <<>>

Url(scheme, host, path) == scheme \o S_sep \o host \o <<"/">> \o path

UrlA == Url(S_https, <<"h">>, <<"r">> \o S_dotgit)

\* UrlA without the suffix, scheme and host in upper case
UrlA_Case == Url(<<"H","T","T","P","S">>, <<"H">>, <<"r">>)

\* UrlA with the repository name in upper case
UrlA_PathCase == Url(S_https, <<"h">>, <<"R">> \o S_dotgit)

\* UrlA with the suffix in upper case
UrlA_SuffixCase == Url(S_https, <<"h">>, <<"r">> \o <<".","G","I","T">>)

\* another repository with the same name
UrlB == Url(S_https, <<"g">>, <<"r">>)

HttpsUrls == {UrlA, UrlA_Case, UrlA_PathCase, UrlA_SuffixCase, UrlB}

LocalFile == <<"/","f">>

OtherUrls ==
    { Url(S_http, <<"h">>, <<"r">>),
      Url(S_git, <<"h">>, <<"r">>),
      Url(S_ssh, <<"h">>, <<"r">>),
      Url(S_ssh \o <<"f","s">>, <<"h">>, <<"r">>),
      Url(S_ftp, <<"h">>, <<"r">>),
      S_file \o S_sep \o LocalFile,
      S_sep \o <<"r">> }

PoolM == <<"m">>

\* the pool directories the environment creates itself
PoolNames == {PoolR, PoolM}

\* the pool directories the environment removes
RemovableNames == PoolNames \cup {extractRepoName(u) : u \in HttpsUrls}

\* the files of the Claude directories and of file: URLs the environment
\* creates
AddFiles ==
    { join3(join2(cwd, S_dotclaude), S_agents, WithExt(AgentX, S_md)),
      LocalFile }

NoOptions ==
    [as |-> JUndefined, command |-> JUndefined, shared |-> JUndefined,
     claudePersonal |-> JUndefined, claudeProject |-> JUndefined]

\* the command lines of add: [source, options]
AddInvocations ==
    {[source |-> JString(u), options |-> NoOptions] : u \in HttpsUrls \cup OtherUrls}
    \cup {[source |-> JString(u), options |-> [NoOptions EXCEPT !.as = JString(PoolM)]] :
             u \in {UrlA, UrlB}}
    \cup {[source |-> JString(UrlA_SuffixCase),
           options |-> [NoOptions EXCEPT !.as = JString(PoolR)]]}
    \cup {[source |-> JString(UrlB),
           options |-> [NoOptions EXCEPT !.command = JString(AgentX)]]}
    \cup {[source |-> src, options |-> NoOptions] : src \in {JUndefined, JString(AgentX)}}
    \cup {[source |-> JUndefined, options |-> [NoOptions EXCEPT ![f] = JString(AgentX)]] :
             f \in {"command", "shared", "claudePersonal", "claudeProject"}}
    \cup {[source |-> JString(AgentX),
           options |-> [as |-> JUndefined, command |-> JString(AgentX),
                        shared |-> JString(AgentX),
                        claudePersonal |-> JString(AgentX),
                        claudeProject |-> JString(AgentX)]]}

EnvMkdir(name) ==
    /\ pc = "idle"
    /\ Cardinality(dirs) < MaxPools
    /\ repoPathOf(name) \notin dirs
    /\ dirs' = dirs \cup {repoPathOf(name)}
    /\ UNCHANGED <<files, cfgRes, origin, pc, cmd, checked, sourcePath, destPath,
                   stdout, stderr, exit, gitCalls, writes, raced>>

\* git init in a pool directory: a .git/config with no remote
EnvGitInit(name) ==
    /\ pc = "idle"
    /\ repoPathOf(name) \in dirs
    /\ repoPathOf(name) \notin DOMAIN origin
    /\ origin' = (repoPathOf(name) :> NoOrigin) @@ origin
    /\ UNCHANGED <<files, dirs, cfgRes, pc, cmd, checked, sourcePath, destPath,
                   stdout, stderr, exit, gitCalls, writes, raced>>

EnvRemoveDir(name) ==
    /\ pc = "idle"
    /\ repoPathOf(name) \in dirs
    /\ dirs' = dirs \ {repoPathOf(name)}
    /\ origin' = [d \in DOMAIN origin \ {repoPathOf(name)} |-> origin[d]]
    /\ UNCHANGED <<files, cfgRes, pc, cmd, checked, sourcePath, destPath,
                   stdout, stderr, exit, gitCalls, writes, raced>>

\* s.replace(sub, ''): the first occurrence of sub removed
RemoveFirst(s, sub) ==
    LET i == IndexOf(s, sub)
    IN IF i = 0 THEN s
       ELSE SubSeq(s, 1, i - 1) \o SubSeq(s, i + Len(sub), Len(s))

\* a path given to Bun.file, taken from the working directory when relative
Absolute(p) == IF Len(p) > 0 /\ p[1] = "/" THEN p ELSE join2(cwd, p)

poolsLocal == join3(getBuddyBasePath, S_pools, S_local)

\* addFromGitRepo as it was before origins were compared: an existing
\* directory is pulled, whatever it is a clone of
addFromGitRepoAlwaysPull(url, customName) ==
    LET repoName == IF Truthy(customName) THEN customName.v ELSE extractRepoName(url)
        repoPath == repoPathOf(repoName)
    IN IF directoryExists(repoPath)
       THEN /\ gitCalls' = Append(gitCalls, <<"pull", repoPath>>)
            /\ Finish(<<Out("pulling latest changes", <<repoName>>),
                        Out("added to pool", <<repoName>>)>>, <<>>, 0)
            /\ UNCHANGED <<fsVars, writes>>
       ELSE /\ gitCalls' = Append(gitCalls, <<"clone", repoPath>>)
            /\ dirs' = dirs \cup {repoPath}
            /\ origin' = (repoPath :> url) @@ origin
            /\ Finish(<<Out("Cloning repository", <<repoName>>),
                        Out("added to pool", <<repoName>>)>>, <<>>, 0)
            /\ UNCHANGED <<files, cfgRes, writes>>

\* addFromGitRepo taking a directory without .git/config for an absent one
addFromGitRepoCloneOverPlain(url, customName) ==
    LET repoName == IF Truthy(customName) THEN customName.v ELSE extractRepoName(url)
        repoPath == repoPathOf(repoName)
    IN IF repoPath \in DOMAIN origin
       THEN /\ gitCalls' = gitCalls \o << <<"config", repoPath>>, <<"pull", repoPath>> >>
            /\ Finish(<<Out("pulling latest changes", <<repoName>>),
                        Out("added to pool", <<repoName>>)>>, <<>>, 0)
            /\ UNCHANGED <<fsVars, writes>>
       ELSE /\ gitCalls' = Append(gitCalls, <<"clone", repoPath>>)
            /\ dirs' = dirs \cup {repoPath}
            /\ origin' = (repoPath :> url) @@ origin
            /\ Finish(<<Out("Cloning repository", <<repoName>>),
                        Out("added to pool", <<repoName>>)>>, <<>>, 0)
            /\ UNCHANGED <<files, cfgRes, writes>>

\* addFromGitRepo cloning into the chosen directory without inspecting it
addFromGitRepoReclone(url, customName) ==
    LET repoName == IF Truthy(customName) THEN customName.v ELSE extractRepoName(url)
        repoPath == repoPathOf(repoName)
    IN /\ gitCalls' = Append(gitCalls, <<"clone", repoPath>>)
       /\ dirs' = dirs \cup {repoPath}
       /\ origin' = (repoPath :> url) @@ origin
       /\ Finish(<<Out("Cloning repository", <<repoName>>),
                   Out("added to pool", <<repoName>>)>>, <<>>, 0)
       /\ UNCHANGED <<files, cfgRes, writes>>

\* addFromGitRepo; pullOk and cloneOk: whether git pull and git clone succeed
addFromGitRepo(url, customName) ==
    LET repoName == IF Truthy(customName) THEN customName.v ELSE extractRepoName(url)
        repoPath == repoPathOf(repoName)
        failed   == Out("Failed to clone repository", <<>>)
    IN IF directoryExists(repoPath)
       THEN IF repoPath \notin DOMAIN origin
            THEN /\ Finish(<<Out("Remove it manually or use --as", <<>>)>>,
                           <<Out("exists but is not a git repository", <<repoName>>)>>, 1)
                 /\ UNCHANGED <<fsVars, gitCalls, writes>>
            ELSE IF origin[repoPath] = NoOrigin
            THEN \* git config --get fails and Bun.$ throws
                 /\ gitCalls' = Append(gitCalls, <<"config", repoPath>>)
                 /\ Finish(<<>>, <<failed>>, 1)
                 /\ UNCHANGED <<fsVars, writes>>
            ELSE IF normalizeUrl(origin[repoPath]) = normalizeUrl(url)
            THEN /\ gitCalls' = gitCalls \o << <<"config", repoPath>>,
                                               <<"pull", repoPath>> >>
                 /\ \E pullOk \in BOOLEAN :
                       IF pullOk
                       THEN Finish(<<Out("pulling latest changes", <<repoName>>),
                                     Out("added to pool", <<repoName>>)>>, <<>>, 0)
                       ELSE Finish(<<Out("pulling latest changes", <<repoName>>)>>,
                                   <<failed>>, 1)
                 /\ UNCHANGED <<fsVars, writes>>
            ELSE /\ gitCalls' = Append(gitCalls, <<"config", repoPath>>)
                 /\ Finish(<<Out("Use --as <different-name>", <<>>)>>,
                           <<Out("already exists in pool", <<repoName>>),
                             Out("Existing origin", <<origin[repoPath]>>),
                             Out("Requested URL", <<url>>)>>, 1)
                 /\ UNCHANGED <<fsVars, writes>>
       ELSE /\ gitCalls' = Append(gitCalls, <<"clone", repoPath>>)
            /\ \E cloneOk \in BOOLEAN :
                  IF cloneOk
                  THEN /\ dirs' = dirs \cup {repoPath}
                       /\ origin' = (repoPath :> url) @@ origin
                       /\ Finish(<<Out("Cloning repository", <<repoName>>),
                                   Out("added to pool", <<repoName>>)>>, <<>>, 0)
                  ELSE /\ Finish(<<Out("Cloning repository", <<repoName>>)>>,
                                 <<failed>>, 1)
                       /\ UNCHANGED <<dirs, origin>>
            /\ UNCHANGED <<files, cfgRes, writes>>

\* addFromLocalFile; writeOk: whether Bun.write succeeds
addFromLocalFile(url) ==
    LET filePath   == RemoveFirst(url, S_file \o S_sep)
        parts      == Split(filePath, "/")
        filename   == IF Len(parts[Len(parts)]) = 0
                      THEN <<"l","o","c","a","l","-","a","g","e","n","t",".","m","d">>
                      ELSE parts[Len(parts)]
        targetPath == join2(poolsLocal, filename)
        failed     == /\ Finish(<<>>, <<Out("Failed to copy local file", <<>>)>>, 1)
                      /\ UNCHANGED <<fsVars, gitCalls, writes>>
    IN IF ~FileExists(Absolute(filePath)) THEN failed
       ELSE \E writeOk \in BOOLEAN :
               IF writeOk
               THEN /\ files' = files \cup {targetPath}
                    /\ writes' = Append(writes, targetPath)
                    /\ Finish(<<Out("Copied to pool", <<filename>>)>>, <<>>, 0)
                    /\ UNCHANGED <<dirs, cfgRes, origin, gitCalls>>
               ELSE failed

\* addFromUrl
addFromUrl(url, customName) ==
    LET validation == validateUrlProtocol(url)
    IN IF validation # "ok"
       THEN /\ Finish(<<>>, <<Out(validation, <<>>)>>, 1)
            /\ UNCHANGED <<fsVars, gitCalls, writes>>
       ELSE IF ParseURL(url).protocol = S_https \o <<":">>
       THEN addFromGitRepo(url, customName)
       ELSE addFromLocalFile(url)

\* addClaudeCommand, addClaudeShared, addClaudePersonalAgent and
\* addClaudeProjectAgent: the copy of src to dst in the local pool; answer:
\* the reply to promptOverwrite; writeOk: whether Bun.write succeeds
addCopy(src, dst) ==
    /\ UNCHANGED <<dirs, cfgRes, origin, gitCalls>>
    /\ IF ~FileExists(src)
       THEN /\ Finish(<<>>, <<Out("file not found", <<src>>)>>, 1)
            /\ UNCHANGED <<files, writes>>
       ELSE \E answer \in (IF FileExists(dst) THEN BOOLEAN ELSE {TRUE}),
               writeOk \in BOOLEAN :
               IF ~answer
               THEN /\ Finish(<<Out("Operation cancelled", <<>>)>>, <<>>, 0)
                    /\ UNCHANGED <<files, writes>>
               ELSE IF ~writeOk
               THEN /\ Finish(<<>>, <<Out("Failed to add", <<>>)>>, 1)
                    /\ UNCHANGED <<files, writes>>
               ELSE /\ files' = files \cup {dst}
                    /\ writes' = Append(writes, dst)
                    /\ Finish(<<Out("Copied to pool", <<dst>>)>>, <<>>, 0)

ClaudeDir(home, sub, name) ==
    join3(join2(home, S_dotclaude), sub, WithExt(name, S_md))

\* the route with the flags looked at before the shape of the source
AddRouteFlagsFirst(source, options) ==
    IF Truthy(options.command) THEN "command"
    ELSE IF Truthy(options.shared) THEN "shared"
    ELSE IF Truthy(options.claudePersonal) THEN "claudePersonal"
    ELSE IF Truthy(options.claudeProject) THEN "claudeProject"
    ELSE IF Truthy(source) /\ isUrl(source.v) THEN "url"
    ELSE IF Truthy(source) THEN "source"
    ELSE "none"

\* the route addCommand takes
AddRoute(source, options) ==
    IF Truthy(source) /\ isUrl(source.v) THEN "url"
    ELSE IF Truthy(options.command) THEN "command"
    ELSE IF Truthy(options.shared) THEN "shared"
    ELSE IF Truthy(options.claudePersonal) THEN "claudePersonal"
    ELSE IF Truthy(options.claudeProject) THEN "claudeProject"
    ELSE IF Truthy(source) THEN "source"
    ELSE "none"

addCommand(source, options) ==
    /\ pc = "idle"
    /\ Cardinality(dirs) < MaxPools
    /\ Cardinality(files) <= MaxFiles
    /\ cmd' = [kind |-> "add", source |-> source, options |-> options]
    /\ UNCHANGED <<checked, sourcePath, destPath, raced>>
    /\ LET route == AddRoute(source, options)
       IN CASE route = "url" ->
                 addFromUrl(source.v, options.as)
            [] route = "command" ->
                 addCopy(ClaudeDir(cwd, S_commands, options.command.v),
                         join3(poolsLocal, S_commands, WithExt(options.command.v, S_md)))
            [] route = "shared" ->
                 addCopy(ClaudeDir(cwd, S_shared, options.shared.v),
                         join3(poolsLocal, S_shared, WithExt(options.shared.v, S_md)))
            [] route = "claudePersonal" ->
                 addCopy(ClaudeDir(homedir, S_agents, options.claudePersonal.v),
                         join2(poolsLocal, WithExt(options.claudePersonal.v, S_md)))
            [] route = "claudeProject" ->
                 addCopy(ClaudeDir(cwd, S_agents, options.claudeProject.v),
                         join2(poolsLocal, WithExt(options.claudeProject.v, S_md)))
            [] route = "source" ->
                 addCopy(ClaudeDir(cwd, S_agents, source.v),
                         join2(poolsLocal, WithExt(source.v, S_md)))
            [] OTHER ->
                 /\ Finish(<<>>, <<Out("Please specify a source", <<>>)>>, 1)
                 /\ UNCHANGED <<fsVars, gitCalls, writes>>

NextAdd ==
    \/ \E f \in AddFiles : EnvCreateFile(f)
    \/ \E f \in files : EnvRemoveFile(f)
    \/ \E n \in PoolNames : EnvMkdir(n)
    \/ \E n \in PoolNames : EnvGitInit(n)
    \/ \E n \in RemovableNames : EnvRemoveDir(n)
    \/ \E inv \in AddInvocations : addCommand(inv.source, inv.options)
    \/ Exit

SpecAdd == Init /\ [][NextAdd]_vars

(***************************************************************************)
(* list.  listCommand chooses the directory of the category, scans it for  *)
(* .md and .txt files, strips the extensions, sorts and prints.  The       *)
(* handler is one action.                                                  *)
(***************************************************************************)
\* the characters of the model in the order of their UTF-16 code units
CodeUnits ==
    <<"-", ".", "/", "0", "1", "2", "3", "4", "5", "6", "7", "8", "9", ":">>
    \o Upper \o <<"_">> \o Lower

CharCode(c) == CHOOSE i \in 1..Len(CodeUnits) : CodeUnits[i] = c

\* a < b as Array.prototype.sort compares strings by default
StrLess(a, b) ==
    \E k \in 1..(Len(a) + 1) :
        /\ k <= Len(b)
        /\ SubSeq(a, 1, k - 1) = SubSeq(b, 1, k - 1)
        /\ k = Len(a) + 1 \/ CharCode(a[k]) < CharCode(b[k])

RECURSIVE Insert(_, _)
Insert(x, sorted) ==
    IF Len(sorted) = 0 THEN <<x>>
    ELSE IF x = Head(sorted) \/ StrLess(x, Head(sorted)) THEN <<x>> \o sorted
    ELSE <<Head(sorted)>> \o Insert(x, Tail(sorted))

\* Array.prototype.sort with the default comparison
RECURSIVE sort(_)
sort(seq) == IF Len(seq) <= 1 THEN seq ELSE Insert(Head(seq), sort(Tail(seq)))

\* Array.from of a scan: the entries in some order (the order does not
\* show in the output, which is sorted)
RECURSIVE ArrayFrom(_)
ArrayFrom(S) ==
    IF S = {} THEN <<>>
    ELSE LET x == CHOOSE y \in S : TRUE IN <<x>> \o ArrayFrom(S \ {x})

\* new Bun.Glob('**/*.<ext>').scanSync({cwd, onlyFiles: true}): the regular
\* files under cwd whose name ends in .<ext>, relative to cwd; a component
\* that starts with a period is not matched
globScan(fs, ds, dir, ext) ==
    LET root   == Resolved(fs, ds, dir)
        prefix == IF root = <<"/">> THEN root ELSE root \o <<"/">>
        Rel(f) == SubSeq(f, Len(prefix) + 1, Len(f))
    IN { Rel(f) : f \in { g \in fs :
            /\ StartsWith(g, prefix)
            /\ EndsWith(g, <<".">> \o ext)
            /\ \A seg \in { Split(Rel(g), "/")[i] :
                              i \in 1..Len(Split(Rel(g), "/")) } :
                  Len(seg) > 0 /\ seg[1] # "." } }

\* file.replace(/\.(md|txt)$/, '')
stripExtension(file) ==
    IF EndsWith(file, <<".">> \o S_md) THEN StripSuffix(file, <<".">> \o S_md)
    ELSE StripSuffix(file, <<".">> \o S_txt)

S_shared_context == S_shared \o <<" ">> \o <<"c","o","n","t","e","x","t">>

\* the lines listCommand prints for the files it found
ListItems(fs, ds, listPath) ==
    LET mdFiles  == ArrayFrom(globScan(fs, ds, listPath, S_md))
        txtFiles == ArrayFrom(globScan(fs, ds, listPath, S_txt))
        allFiles == mdFiles \o txtFiles
    IN sort([i \in 1..Len(allFiles) |-> stripExtension(allFiles[i])])

\* the header and the lines of a listing that is not empty
listOutput(type, namespace, items) ==
    <<Out("in", <<type, namespace>>)>>
    \o [i \in 1..Len(items) |-> Out("item", <<items[i]>>)]

\* namespace: the argument of the command line (JUndefined when absent)
listCommand(namespace, options) ==
    /\ pc = "idle"
    /\ Cardinality(files) <= MaxFiles
    /\ cmd' = [kind |-> "list", source |-> namespace, options |-> options]
    /\ UNCHANGED <<fsVars, checked, sourcePath, destPath, gitCalls, writes, raced>>
    /\ LET ns       == IF Truthy(namespace) THEN namespace.v ELSE S_local
           isLocal  == ns = S_local
           repoPath == repoPathOf(ns)
           config   == IF isLocal THEN BuddyConfigNew
                       ELSE loadBuddyConfigFrom(ConfigAt(ns))
           sub      == IF options.commands THEN config.commands
                       ELSE IF options.shared THEN config.context
                       ELSE config.agents
           type     == IF options.commands THEN S_commands
                       ELSE IF options.shared THEN S_shared_context
                       ELSE S_agents
       IN IF ~isLocal /\ ~directoryExists(repoPath)
          THEN Finish(<<>>, <<Out("Pool not found", <<ns>>)>>, 1)
          ELSE IF sub.t # "string"
          THEN \* path.join throws inside the try block
               Finish(<<>>, <<Out("Failed to list", <<ns>>)>>, 1)
          ELSE LET listPath == join2(repoPath, sub.v)
                   items    == ListItems(files, dirs, listPath)
               IN IF ~directoryExists(listPath) \/ Len(items) = 0
                  THEN Finish(<<Out("No found", <<type, ns>>)>>, <<>>, 0)
                  ELSE Finish(listOutput(type, ns, items), <<>>, 0)

(***************************************************************************)
(* The pools as import, tool and list see them: the local pool and pool r, *)
(* each with a configuration resource.                                     *)
(***************************************************************************)
ReadMe == <<"R","e","a","d","M","e">>

DirY == <<"y">>

\* the regular files the environment creates and removes in the pools
PoolFiles ==
    LET P == repoPathOf(PoolR)
        L == repoPathOf(S_local)
    IN { WithExt(join2(P, AgentX), S_md), WithExt(join2(P, AgentX), S_txt),
         WithExt(join3(P, DirA, DirY), S_txt),
         WithExt(join2(P, ReadMe), S_md),
         WithExt(join2(L, AgentX), S_md),
         WithExt(join3(L, S_commands, AgentX), S_md),
         WithExt(join3(L, S_shared, AgentX), S_md) }

\* the contents the environment gives to <pool>/.buddy/config.json
PoolConfigResources(pool) ==
    IF pool = S_local
    THEN { ResAbsent,
           ResObject(JString(DirA), JUndefined, JUndefined, JString(ExtFoo)) }
    ELSE { ResAbsent,
           ResObject(JString(DirA), JUndefined, JUndefined, JString(ExtFoo)),
           ResObject(JUndefined, JUndefined, JNumber(<<"5">>), JUndefined) }

\* the command lines of import: [source, personal, project, force]
PoolImports ==
    { [source |-> src, personal |-> g, project |-> j, force |-> FALSE] :
        src \in { S_local \o <<"/">> \o AgentX,
                  S_local \o <<"/">> \o S_commands \o <<"/">> \o AgentX },
        g \in BOOLEAN, j \in BOOLEAN }
    \cup { [source |-> PoolR \o <<"/">> \o ReadMe, personal |-> FALSE,
            project |-> FALSE, force |-> f] : f \in BOOLEAN }
    \cup { [source |-> AgentX, personal |-> FALSE, project |-> FALSE,
            force |-> FALSE] }

\* the references given to tool
PoolToolSources == { S_local \o <<"/">> \o AgentX, AgentX }

\* the command lines of list: [namespace, options]
ListInvocations ==
    { [namespace |-> ns, options |-> [commands |-> c, shared |-> s]] :
        ns \in {JUndefined, JString(PoolR)}, c \in BOOLEAN, s \in BOOLEAN }

NextPools ==
    \/ \E f \in PoolFiles : EnvCreateFile(f)
    \/ \E f \in files : EnvRemoveFile(f)
    \/ \E pool \in {PoolR, S_local} :
          \E res \in PoolConfigResources(pool) : EnvWriteConfig(pool, res)
    \/ EnvMkdir(PoolR)
    \/ \E inv \in PoolImports :
          ImportLocate(inv.source, inv.personal, inv.project, inv.force)
    \/ \E answer \in BOOLEAN, writeOk \in BOOLEAN : ImportCopy(answer, writeOk)
    \/ \E src \in PoolToolSources : ToolLocate(src)
    \/ ToolRead
    \/ \E inv \in ListInvocations : listCommand(inv.namespace, inv.options)
    \/ Exit

SpecPools == Init /\ [][NextPools]_vars

(***************************************************************************)
(* Properties of import and tool, checked under SpecResolve.               *)
(***************************************************************************)
Resolving == cmd.kind \in {"import", "tool"}

CmdParsed == parseImportSource(cmd.source)

CmdConfig == EffectiveConfig(cmd.kind, CmdParsed.repoName)

CmdBase == SearchBase(cmd.kind, CmdParsed.repoName, CmdConfig)

\* findAgentFile has run in this invocation
Searched == Resolving /\ checked # <<>>

\* the files are those findAgentFile saw
Undisturbed == raced = 0 /\ writes = <<>>

IsPrefix(a, b) == Len(a) <= Len(b) /\ SubSeq(b, 1, Len(a)) = a

Slash(base, name) == base \o <<"/">> \o name

\* the not-found report of the invocation, if it has made one
TriedReports ==
    {i \in 1..Len(stderr) :
        stderr[i].tag \in {"Agent file not found. Tried",
                           "Context file not found. Tried"}}

\* C1: with no extension configured the locator tests <base>/p.md, then
\* <base>/p.txt, then <base>/p, stops at the first that exists and returns
\* it; when p.txt exists and p.md does not, it has tested p.md and p.txt and
\* returns p.txt, and no candidate list is reported.
C1_DefaultModeFallback ==
    (Searched /\ CmdConfig.extension.t = "undefined") =>
        LET md  == WithExt(Slash(CmdBase, CmdParsed.agentPath), S_md)
            txt == WithExt(Slash(CmdBase, CmdParsed.agentPath), S_txt)
            no  == Slash(CmdBase, CmdParsed.agentPath)
        IN /\ IsPrefix(checked, <<md, txt, no>>)
           /\ sourcePath # NoFile => sourcePath = checked[Len(checked)]
           /\ sourcePath = NoFile => checked = <<md, txt, no>>
           /\ Undisturbed =>
                 /\ sourcePath = IF FileExists(md) THEN md
                                 ELSE IF FileExists(txt) THEN txt
                                 ELSE IF FileExists(no) THEN no
                                 ELSE NoFile
                 /\ (~FileExists(md) /\ FileExists(txt)) =>
                        /\ checked = <<md, txt>>
                        /\ sourcePath = txt
                        /\ TriedReports = {}

C1_Witness ==
    /\ cmd.kind = "import"
    /\ CmdConfig.extension.t = "undefined"
    /\ Undisturbed
    /\ Len(checked) = 2
    /\ ~FileExists(checked[1])
    /\ EndsWith(checked[1], <<".">> \o S_md)
    /\ sourcePath = WithExt(Slash(CmdBase, CmdParsed.agentPath), S_txt)
    /\ FileExists(sourcePath)

\* C2: with extension E configured the locator tests exactly <base>/p.E and
\* then <base>/p, stops at the first that exists and returns it, and tests
\* no other path; when nothing or only <base>/p exists both were tested, in
\* that order.
C2_ConfiguredExtension ==
    (Searched /\ CmdConfig.extension.t # "undefined") =>
        LET withExt == WithExt(Slash(CmdBase, CmdParsed.agentPath),
                               CmdConfig.extension.v)
            noExt   == Slash(CmdBase, CmdParsed.agentPath)
        IN /\ IsPrefix(checked, <<withExt, noExt>>)
           /\ sourcePath # NoFile => sourcePath = checked[Len(checked)]
           /\ sourcePath = NoFile => checked = <<withExt, noExt>>
           /\ Undisturbed =>
                 /\ sourcePath = IF FileExists(withExt) THEN withExt
                                 ELSE IF FileExists(noExt) THEN noExt
                                 ELSE NoFile
                 /\ (~FileExists(withExt) /\ FileExists(noExt)) =>
                        checked = <<withExt, noExt>> /\ sourcePath = noExt

C2_Witness ==
    /\ Searched
    /\ CmdConfig.extension = JString(ExtFoo)
    /\ Undisturbed
    /\ checked = << WithExt(Slash(CmdBase, CmdParsed.agentPath), ExtFoo),
                    Slash(CmdBase, CmdParsed.agentPath) >>
    /\ sourcePath = checked[2]
    /\ FileExists(sourcePath)
    /\ \E f \in files : EndsWith(f, <<".">> \o S_md)

\* the README check of importCommand has refused the invocation
Refused == cmd.kind = "import" /\ ~cmd.force
           /\ ToLower(CmdParsed.filename) = S_readme

\* C5: with a configuration resource that is present and does not parse,
\* the invocation does not fail on the configuration and searches exactly
\* as it does with no resource: in <pool> (import) or <pool>/shared (tool),
\* in default mode, with the same result.
C5_MalformedIsDefault ==
    (Resolving /\ ~Refused /\ ConfigAt(CmdParsed.repoName).kind = "malformed") =>
        LET base == IF cmd.kind = "tool"
                    THEN join2(repoPathOf(CmdParsed.repoName), S_shared)
                    ELSE repoPathOf(CmdParsed.repoName)
            asAbsent == findAgentFile(files, dirs, base, CmdParsed.agentPath,
                                      JUndefined)
        IN /\ CmdConfig = BuddyConfigNew
           /\ Searched
           /\ checked[1] = WithExt(Slash(base, CmdParsed.agentPath), S_md)
           /\ \A i \in 1..Len(stderr) :
                 stderr[i].tag \notin {"uncaught TypeError",
                                       "Failed to read context file"}
                 \/ sourcePath # NoFile
           /\ Undisturbed => /\ checked = asAbsent.checked
                             /\ sourcePath = asAbsent.path

C5_Witness ==
    /\ Resolving
    /\ CmdParsed.repoName = PoolR
    /\ cfgRes[PoolR] = ResMalformed
    /\ Undisturbed
    /\ sourcePath # NoFile
    /\ FileExists(sourcePath)
    /\ Len(checked) = 2

\* C7: when no candidate exists, the list import and tool report is the
\* sequence of paths whose existence was tested, entry by entry and in the
\* same order (each reported relative to the pool's directory).
C7_ReportedEqualsChecked ==
    \A i \in TriedReports :
        /\ Len(stderr[i].list) = Len(checked)
        /\ \A k \in 1..Len(checked) :
              checked[k] = Slash(repoPathOf(CmdParsed.repoName), stderr[i].list[k])

HasTag(stream, tag) == \E i \in 1..Len(stream) : stream[i].tag = tag

\* C8: import ends with status 1 whenever no candidate exists or the copy
\* fails, and with status 0 only when the copy succeeded or the user
\* declined to overwrite, the destination then being left as it was.
C8_ImportExitStatus ==
    (pc = "done" /\ cmd.kind = "import") =>
        /\ (Searched /\ sourcePath = NoFile) => exit = 1
        /\ HasTag(stderr, "Failed to copy file") => exit = 1
        /\ exit = 0 => \/ HasTag(stdout, "Imported")
                       \/ HasTag(stdout, "Operation cancelled") /\ writes = <<>>

\* C9: an invocation of tool writes nothing before it ends and ends with
\* exactly one record: {content} on standard output with status 0, the
\* content being that of the file the locator returned, or {error} on the
\* error stream with status 1; also when the file was removed after the
\* locator's existence check.
C9_ToolSingleRecord ==
    cmd.kind = "tool" =>
        /\ pc # "done" => stdout = <<>> /\ stderr = <<>> /\ exit = -1
        /\ pc = "done" =>
              \/ /\ exit = 0
                 /\ stderr = <<>>
                 /\ Len(stdout) = 1
                 /\ stdout[1].key = "content"
                 /\ sourcePath # NoFile
                 /\ stdout[1].list = <<sourcePath>>
              \/ /\ exit = 1
                 /\ stdout = <<>>
                 /\ Len(stderr) = 1
                 /\ stderr[1].key = "error"

C9_Witness ==
    /\ cmd.kind = "tool"
    /\ pc = "done"
    /\ raced > 0
    /\ sourcePath # NoFile
    /\ ~FileExists(sourcePath)
    /\ exit = 1
    /\ Len(stderr) = 1

\* the value the claim gives a field of the configuration: the resource's
\* when it is a string, the field's default otherwise
FieldOrDefault(v, default) == IF v.t = "string" THEN v ELSE default

\* C11: when the configuration resource parses to an object, each of agents,
\* commands and context is the resource's value if that is a string and the
\* field's own default ('', 'commands', 'shared') otherwise, whatever the
\* other fields are, and the invocation searches the directory that value
\* names.
C11_PartialConfig ==
    ( /\ Resolving
      /\ ~Refused
      /\ ~(cmd.kind = "tool" /\ CmdParsed.repoName = S_local)
      /\ ConfigAt(CmdParsed.repoName).kind = "object" ) =>
        LET res     == ConfigAt(CmdParsed.repoName)
            agents  == FieldOrDefault(res.agents, JString(<<>>))
            context == FieldOrDefault(res.context, JString(S_shared))
            base    == join2(repoPathOf(CmdParsed.repoName),
                             IF cmd.kind = "tool" THEN context.v ELSE agents.v)
        IN /\ CmdConfig.agents = agents
           /\ CmdConfig.commands = FieldOrDefault(res.commands, JString(S_commands))
           /\ CmdConfig.context = context
           /\ Searched
           /\ IsPrefix(Slash(base, CmdParsed.agentPath), checked[1])

\* the three destinations of an import of the leaf name of the invocation
UserScoped ==
    homedir \o <<"/">> \o S_dotclaude \o <<"/">> \o S_agents \o <<"/">>
    \o CmdParsed.filename \o <<".">> \o S_md

ProjectScoped ==
    cwd \o <<"/">> \o S_dotclaude \o <<"/">> \o S_agents \o <<"/">>
    \o CmdParsed.filename \o <<".">> \o S_md

CurrentLocation == cwd \o <<"/">> \o CmdParsed.filename \o <<".">> \o S_md

Components(p) == {Split(p, "/")[i] : i \in 1..Len(Split(p, "/"))}

\* path p lies under the root of pool ns
UnderPool(ns, p) ==
    /\ IsPrefix(repoPathOf(ns) \o <<"/">>, p)
    /\ <<".", ".">> \notin Components(p)

\* C21: the directory fields of the configuration an invocation has loaded
\* have no '..' component, and every path the locator tested, and the file
\* it returned for import or tool to read, lies under the root of the pool
\* the reference names.
C21_NoEscape ==
    (Resolving /\ ~Refused) =>
        /\ \A f \in {"agents", "commands", "context"} :
              CmdConfig[f].t = "string" => <<".", ".">> \notin Components(CmdConfig[f].v)
        /\ \A k \in 1..Len(checked) : UnderPool(CmdParsed.repoName, checked[k])
        /\ sourcePath # NoFile => UnderPool(CmdParsed.repoName, sourcePath)

(***************************************************************************)
(* Properties of add, checked under SpecAdd.                               *)
(***************************************************************************)
\* the step of an invocation of add that goes to addFromGitRepo
GitAddStep ==
    /\ pc = "idle"
    /\ cmd'.kind = "add"
    /\ AddRoute(cmd'.source, cmd'.options) = "url"
    /\ LET parsed == ParseURL(cmd'.source.v)
       IN parsed.ok /\ parsed.protocol = S_https \o <<":">>

\* the pool directory addFromGitRepo works on in that step
ChosenDir ==
    repoPathOf(IF Truthy(cmd'.options.as) THEN cmd'.options.as.v
               ELSE extractRepoName(cmd'.source.v))

Ran(calls, verb) == \E i \in 1..Len(calls) : calls[i][1] = verb

FsUnchanged == files' = files /\ dirs' = dirs /\ origin' = origin /\ cfgRes' = cfgRes

\* C3: when the chosen pool directory is a clone whose origin differs from
\* the requested URL after a trailing .git is removed and both are put in
\* lower case, add reports the collision, ends with status 1, runs neither
\* git clone nor git pull and changes no file, directory or origin.
C3_Collision ==
    [][ ( /\ GitAddStep
          /\ LET d == ChosenDir
             IN /\ d \in dirs
                /\ d \in DOMAIN origin
                /\ origin[d] # NoOrigin
                /\ ToLower(StripSuffix(origin[d], S_dotgit))
                      # ToLower(StripSuffix(cmd'.source.v, S_dotgit)) )
        => /\ pc' = "done"
           /\ exit' = 1
           /\ HasTag(stderr', "already exists in pool")
           /\ ~Ran(gitCalls', "clone")
           /\ ~Ran(gitCalls', "pull")
           /\ writes' = <<>>
           /\ FsUnchanged ]_vars

C3_Witness ==
    /\ pc = "done"
    /\ cmd.kind = "add"
    /\ cmd.source = JString(UrlB)
    /\ ~Truthy(cmd.options.as)
    /\ repoPathOf(PoolR) \in DOMAIN origin
    /\ origin[repoPathOf(PoolR)] = UrlA
    /\ HasTag(stderr, "already exists in pool")
    /\ exit = 1
    /\ ~Ran(gitCalls, "clone") /\ ~Ran(gitCalls, "pull")

\* two URLs that differ at most in letter case and in a trailing .git
SameUpToCaseAndSuffix(a, b) ==
    StripSuffix(ToLower(a), S_dotgit) = StripSuffix(ToLower(b), S_dotgit)

\* C4: when a pool directory is the clone add made of URL A, add of A in any
\* letter case, with or without the .git suffix (and with no --as, or --as
\* naming that directory), pulls in that directory: it neither clones nor
\* reports a collision.
C4_VariantUpdates ==
    [][ GitAddStep => \A d \in DOMAIN origin :
          ( /\ origin[d] # NoOrigin
            /\ d = repoPathOf(extractRepoName(origin[d]))
            /\ SameUpToCaseAndSuffix(origin[d], cmd'.source.v)
            /\ ~Truthy(cmd'.options.as) \/ repoPathOf(cmd'.options.as.v) = d )
          => /\ Ran(gitCalls', "pull")
             /\ ~Ran(gitCalls', "clone")
             /\ ~HasTag(stderr', "already exists in pool") ]_vars

Rejected(reason) ==
    /\ exit = 1
    /\ stderr = <<Out(reason, <<>>)>>
    /\ stdout = <<>>
    /\ gitCalls = <<>>
    /\ writes = <<>>

RejectionReasons ==
    {"Invalid URL format", "TLS required, use HTTPS", "Not implemented yet",
     "Unsupported protocol"}

UrlAddDone ==
    /\ pc = "done"
    /\ cmd.kind = "add"
    /\ AddRoute(cmd.source, cmd.options) = "url"

Protocol(scheme) == scheme \o <<":">>

\* C6 as stated: https and file are accepted, http is rejected as insecure,
\* git and ssh as not implemented, every other scheme as unsupported, and a
\* string that does not parse as invalid; a rejection ends with status 1
\* and nothing else done.
C6_AsStated ==
    UrlAddDone =>
        LET parsed == ParseURL(cmd.source.v)
        IN /\ ~parsed.ok => Rejected("Invalid URL format")
           /\ parsed.ok =>
                 /\ parsed.protocol = Protocol(S_http)
                       => Rejected("TLS required, use HTTPS")
                 /\ parsed.protocol \in {Protocol(S_git), Protocol(S_ssh)}
                       => Rejected("Not implemented yet")
                 /\ parsed.protocol \in {Protocol(S_https), Protocol(S_file)}
                       => \A i \in 1..Len(stderr) : stderr[i].tag \notin RejectionReasons
                 /\ parsed.protocol \notin {Protocol(S_http), Protocol(S_git),
                                            Protocol(S_ssh), Protocol(S_https),
                                            Protocol(S_file)}
                       => Rejected("Unsupported protocol")

\* C6 amended: as stated, except that every scheme whose name begins with
\* ssh, not ssh alone, is rejected as not implemented, and unsupported are
\* the schemes that are none of http, https, file, git and do not begin
\* with ssh.
C6_ProtocolValidation ==
    UrlAddDone =>
        LET parsed == ParseURL(cmd.source.v)
            sshLike == StartsWith(parsed.protocol, S_ssh)
        IN /\ ~parsed.ok => Rejected("Invalid URL format")
           /\ parsed.ok =>
                 /\ parsed.protocol = Protocol(S_http)
                       => Rejected("TLS required, use HTTPS")
                 /\ (parsed.protocol = Protocol(S_git) \/ sshLike)
                       => Rejected("Not implemented yet")
                 /\ parsed.protocol \in {Protocol(S_https), Protocol(S_file)}
                       => \A i \in 1..Len(stderr) : stderr[i].tag \notin RejectionReasons
                 /\ (/\ parsed.protocol \notin {Protocol(S_http), Protocol(S_git),
                                                Protocol(S_https), Protocol(S_file)}
                     /\ ~sshLike)
                       => Rejected("Unsupported protocol")

C6_Witness ==
    /\ UrlAddDone
    /\ cmd.source = JString(Url(S_ssh \o <<"f","s">>, <<"h">>, <<"r">>))
    /\ Rejected("Not implemented yet")

\* C10: when the chosen pool directory exists and has no .git/config, add
\* reports it, ends with status 1, runs no git command and changes nothing;
\* git clone runs only when the directory does not exist.
C10_PlainDirectory ==
    [][ GitAddStep =>
          LET d == ChosenDir
          IN /\ (d \in dirs /\ d \notin DOMAIN origin)
                   => /\ pc' = "done"
                      /\ exit' = 1
                      /\ HasTag(stderr', "exists but is not a git repository")
                      /\ gitCalls' = <<>>
                      /\ writes' = <<>>
                      /\ FsUnchanged
             /\ Ran(gitCalls', "clone") => ~directoryExists(d) ]_vars

C10_Witness ==
    /\ pc = "done"
    /\ cmd.kind = "add"
    /\ cmd.source = JString(UrlA)
    /\ repoPathOf(PoolR) \in dirs
    /\ repoPathOf(PoolR) \notin DOMAIN origin
    /\ HasTag(stderr, "exists but is not a git repository")
    /\ exit = 1
    /\ gitCalls = <<>>

\* a step of an invocation of add
AddStep == pc = "idle" /\ cmd'.kind = "add"

\* the option f was given (with a name)
Given(f) == cmd'.options[f].t = "string" /\ Len(cmd'.options[f].v) > 0

SourceGiven == cmd'.source.t = "string" /\ Len(cmd'.source.v) > 0

\* the step is a copy of src into the local pool as dst, or its refusal
CopyStep(src, dst) ==
    /\ gitCalls' = <<>>
    /\ dirs' = dirs /\ origin' = origin /\ cfgRes' = cfgRes
    /\ \/ /\ ~FileExists(src)
          /\ stderr' = <<Out("file not found", <<src>>)>>
          /\ exit' = 1
          /\ files' = files /\ writes' = <<>>
       \/ /\ FileExists(src)
          /\ \/ /\ FileExists(dst)
                /\ stdout' = <<Out("Operation cancelled", <<>>)>>
                /\ exit' = 0
                /\ files' = files /\ writes' = <<>>
             \/ /\ stderr' = <<Out("Failed to add", <<>>)>>
                /\ exit' = 1
                /\ files' = files /\ writes' = <<>>
             \/ /\ stdout' = <<Out("Copied to pool", <<dst>>)>>
                /\ exit' = 0
                /\ files' = files \cup {dst} /\ writes' = <<dst>>

\* the step is an acquisition from a URL: a rejection, git commands, or the
\* copy of the file a file: URL names
UrlStep ==
    /\ ~HasTag(stderr', "file not found")
    /\ ~HasTag(stderr', "Failed to add")
    /\ ~HasTag(stderr', "Please specify a source")
    /\ ~HasTag(stdout', "Operation cancelled")
    /\ stderr' # <<>> \/ gitCalls' # <<>> \/ writes' # <<>>
    /\ writes' # <<>> =>
          /\ ParseURL(cmd'.source.v).protocol = Protocol(S_file)
          /\ gitCalls' = <<>>
          /\ Len(writes') = 1
          /\ IsPrefix(poolsLocal \o <<"/">>, writes'[1])

\* C13: an invocation of add takes one route: URL acquisition when the
\* source contains '://', whatever the flags; otherwise the copy named by
\* --command, else by --shared, else by --claude-personal, else by
\* --claude-project, else by the bare source as a project agent; with no
\* source and no flag it ends with status 1 and copies nothing.
C13_AddRouting ==
    [][ AddStep =>
          /\ pc' = "done"
          /\ IF SourceGiven /\ Includes(cmd'.source.v, S_sep)
             THEN UrlStep
             ELSE IF Given("command")
             THEN LET n == cmd'.options.command.v
                  IN CopyStep(join3(cwd, S_dotclaude \o <<"/">> \o S_commands,
                                    WithExt(n, S_md)),
                              join3(poolsLocal, S_commands, WithExt(n, S_md)))
             ELSE IF Given("shared")
             THEN LET n == cmd'.options.shared.v
                  IN CopyStep(join3(cwd, S_dotclaude \o <<"/">> \o S_shared,
                                    WithExt(n, S_md)),
                              join3(poolsLocal, S_shared, WithExt(n, S_md)))
             ELSE IF Given("claudePersonal")
             THEN LET n == cmd'.options.claudePersonal.v
                  IN CopyStep(join3(homedir, S_dotclaude \o <<"/">> \o S_agents,
                                    WithExt(n, S_md)),
                              join2(poolsLocal, WithExt(n, S_md)))
             ELSE IF Given("claudeProject") \/ SourceGiven
             THEN LET n == IF Given("claudeProject")
                           THEN cmd'.options.claudeProject.v
                           ELSE cmd'.source.v
                  IN CopyStep(join3(cwd, S_dotclaude \o <<"/">> \o S_agents,
                                    WithExt(n, S_md)),
                              join2(poolsLocal, WithExt(n, S_md)))
             ELSE /\ exit' = 1
                  /\ stderr' = <<Out("Please specify a source", <<>>)>>
                  /\ stdout' = <<>>
                  /\ gitCalls' = <<>>
                  /\ writes' = <<>>
                  /\ FsUnchanged ]_vars

\* every flag and a bare source were given, the project agent exists, and
\* add took the --command route
C13_Witness ==
    /\ pc = "done"
    /\ cmd.kind = "add"
    /\ cmd.source = JString(AgentX)
    /\ \A f \in {"command", "shared", "claudePersonal", "claudeProject"} :
          cmd.options[f] = JString(AgentX)
    /\ FileExists(ClaudeDir(cwd, S_agents, AgentX))
    /\ stderr = <<Out("file not found", <<ClaudeDir(cwd, S_commands, AgentX)>>)>>
    /\ exit = 1
    /\ writes = <<>>

\* the recorded origin of pool directory d and the URL differ after a
\* trailing .git is removed and both are put in lower case
OtherOrigin(d, url) ==
    ToLower(StripSuffix(origin[d], S_dotgit)) # ToLower(StripSuffix(url, S_dotgit))

\* C20: no invocation of add, with or without --as, changes or removes the
\* origin recorded for a pool directory; an add that targets a directory
\* occupied by a clone either pulls there, its URL being the recorded origin
\* up to case and a trailing .git, or ends with status 1, and leaves files,
\* directories and origins as they were; and when the URL collides with the
\* clone in the directory of its own name, the same add with --as M, M not
\* existing, runs git clone into M alone, records the URL as the origin of
\* M when the clone succeeds and leaves the other directory as it was.
C20_PoolIdentityStable ==
    [][ AddStep =>
          /\ \A d \in DOMAIN origin :
                d \in DOMAIN origin' /\ origin'[d] = origin[d] /\ d \in dirs'
          /\ GitAddStep =>
                LET d   == ChosenDir
                    url == cmd'.source.v
                    own == repoPathOf(extractRepoName(url))
                IN /\ (d \in DOMAIN origin /\ origin[d] # NoOrigin) =>
                         /\ FsUnchanged
                         /\ ~Ran(gitCalls', "clone")
                         /\ \/ /\ ~OtherOrigin(d, url)
                               /\ gitCalls'[Len(gitCalls')] = <<"pull", d>>
                            \/ /\ OtherOrigin(d, url)
                               /\ exit' = 1
                               /\ ~Ran(gitCalls', "pull")
                   /\ ( /\ Truthy(cmd'.options.as)
                        /\ ~directoryExists(d)
                        /\ own \in DOMAIN origin
                        /\ origin[own] # NoOrigin
                        /\ OtherOrigin(own, url) ) =>
                         /\ gitCalls' = << <<"clone", d>> >>
                         /\ exit' = 0 =>
                               /\ origin' = (d :> url) @@ origin
                               /\ dirs' = dirs \cup {d}
                         /\ exit' # 0 => FsUnchanged
                         /\ files' = files ]_vars

C20_Witness ==
    /\ pc = "done"
    /\ cmd.kind = "add"
    /\ cmd.source = JString(UrlB)
    /\ cmd.options.as = JString(PoolM)
    /\ exit = 0
    /\ gitCalls = << <<"clone", repoPathOf(PoolM)>> >>
    /\ repoPathOf(PoolR) \in DOMAIN origin
    /\ origin[repoPathOf(PoolR)] = UrlA
    /\ repoPathOf(PoolM) \in DOMAIN origin
    /\ origin[repoPathOf(PoolM)] = UrlB

(***************************************************************************)
(* Properties of import, tool and list, checked under SpecPools.           *)
(***************************************************************************)
\* an import of a reference whose leaf name is readme in some letter case
ReadmeImport == cmd.kind = "import" /\ ToLower(CmdParsed.filename) = S_readme

\* C12: an import whose leaf name is readme in any letter case, without
\* --force, ends at once with status 1 and the refusal: no path was
\* tested, no destination computed, no prompt made and nothing written,
\* whatever the pool's configuration is; with --force it is resolved by the
\* locator and copied to its destination like any other reference.
C12_ReadmeGuard ==
    ReadmeImport =>
        IF ~cmd.force
        THEN /\ pc = "done"
             /\ exit = 1
             /\ HasTag(stderr, "Really? A README file?")
             /\ Len(stderr) = 1
             /\ checked = <<>>
             /\ sourcePath = NoFile
             /\ destPath = NoFile
             /\ writes = <<>>
             /\ raced = 0
             /\ ~HasTag(stdout, "Imported")
             /\ ~HasTag(stdout, "Operation cancelled")
        ELSE /\ Searched
             /\ IsPrefix(checked, Candidates(CmdBase, CmdParsed.agentPath,
                                             CmdConfig.extension))
             /\ ~HasTag(stderr, "Really? A README file?")
             /\ destPath = join2(cwd, WithExt(CmdParsed.filename, S_md))
             /\ HasTag(stdout, "Imported") => writes = <<destPath>>
             /\ (pc = "done" /\ sourcePath # NoFile /\ stderr = <<>>
                 /\ ~HasTag(stdout, "Operation cancelled"))
                   => HasTag(stdout, "Imported")

C12_Witness ==
    /\ ReadmeImport
    /\ ~cmd.force
    /\ CmdParsed.filename = ReadMe
    /\ FileExists(WithExt(join2(repoPathOf(PoolR), ReadMe), S_md))
    /\ cfgRes[PoolR] = ResAbsent
    /\ pc = "done"
    /\ exit = 1

\* a forced import of a readme has been copied
C12_ForcedReached ==
    /\ ReadmeImport
    /\ cmd.force
    /\ HasTag(stdout, "Imported")
    /\ writes = <<join2(cwd, WithExt(ReadMe, S_md))>>

\* the positions of '/' in a reference
Slashes(ref) == {i \in 1..Len(ref) : ref[i] = "/"}

\* C15: the pool name of a reference is what precedes its first '/', the
\* relative path what follows it, and the leaf name what follows its last
\* '/'; a reference with no '/' has the pool name 'local' and is searched
\* in the local pool; the leaf name is never empty.
C15_ReferenceParsing ==
    Resolving =>
        LET ref   == cmd.source
            first == CHOOSE i \in Slashes(ref) : \A j \in Slashes(ref) : i <= j
            last  == CHOOSE i \in Slashes(ref) : \A j \in Slashes(ref) : j <= i
        IN /\ Len(CmdParsed.filename) > 0
           /\ Slashes(ref) # {} =>
                 /\ CmdParsed.repoName = SubSeq(ref, 1, first - 1)
                 /\ CmdParsed.agentPath = SubSeq(ref, first + 1, Len(ref))
                 /\ CmdParsed.filename = SubSeq(ref, last + 1, Len(ref))
           /\ Slashes(ref) = {} =>
                 /\ CmdParsed.repoName = S_local
                 /\ CmdParsed.filename = ref
                 /\ Searched => IsPrefix(repoPathOf(S_local) \o <<"/">>, checked[1])

\* the namespace an invocation of list works on
ListNamespace == IF Truthy(cmd.source) THEN cmd.source.v ELSE S_local

\* C16: for the pool named local, import, tool and list give the result
\* they give when pools/local/.buddy/config.json is absent, whatever that
\* resource holds: the locator searches pools/local (import) or
\* pools/local/shared (tool) in default mode and returns the same file, and
\* list prints the files of pools/local, pools/local/commands or
\* pools/local/shared.
C16_LocalNeverConfigured ==
    /\ (Resolving /\ ~Refused /\ CmdParsed.repoName = S_local) =>
          LET base == IF cmd.kind = "tool"
                      THEN repoPathOf(S_local) \o <<"/">> \o S_shared
                      ELSE repoPathOf(S_local)
              asAbsent == findAgentFile(files, dirs, base, CmdParsed.agentPath,
                                        JUndefined)
          IN /\ Searched
             /\ IsPrefix(checked, Candidates(base, CmdParsed.agentPath, JUndefined))
             /\ Undisturbed => /\ checked = asAbsent.checked
                               /\ sourcePath = asAbsent.path
    /\ (cmd.kind = "list" /\ ListNamespace = S_local) =>
          LET listPath == IF cmd.options.commands
                          THEN repoPathOf(S_local) \o <<"/">> \o S_commands
                          ELSE IF cmd.options.shared
                          THEN repoPathOf(S_local) \o <<"/">> \o S_shared
                          ELSE repoPathOf(S_local)
              items == ListItems(files, dirs, listPath)
          IN /\ exit = 0
             /\ stderr = <<>>
             /\ Len(items) = 0 => HasTag(stdout, "No found")
             /\ Len(items) > 0 =>
                   /\ Len(stdout) = Len(items) + 1
                   /\ \A k \in 1..Len(items) : stdout[k + 1].list = <<items[k]>>

\* the .md and .txt files anywhere under the root of pool ns
MatchingFiles(ns) ==
    {f \in files : /\ IsPrefix(repoPathOf(ns) \o <<"/">>, f)
                   /\ EndsWith(f, <<".">> \o S_md) \/ EndsWith(f, <<".">> \o S_txt)}

\* C17: list on a pool that exists (the local pool, or a pool whose
\* directory exists) and holds no .md or .txt file prints 'No <category>
\* found' and ends with status 0, for every category.
C17_EmptyListing ==
    ( /\ cmd.kind = "list"
      /\ pc = "done"
      /\ ListNamespace = S_local \/ directoryExists(repoPathOf(ListNamespace))
      /\ MatchingFiles(ListNamespace) = {} ) =>
        /\ exit = 0
        /\ stderr = <<>>
        /\ stdout = <<Out("No found",
                          << IF cmd.options.commands THEN S_commands
                             ELSE IF cmd.options.shared THEN S_shared_context
                             ELSE S_agents,
                             ListNamespace >>)>>

\* the directory an invocation of list that printed names has listed
ListedDir ==
    IF ListNamespace = S_local
    THEN IF cmd.options.commands THEN repoPathOf(S_local) \o <<"/">> \o S_commands
         ELSE IF cmd.options.shared THEN repoPathOf(S_local) \o <<"/">> \o S_shared
         ELSE repoPathOf(S_local)
    ELSE LET config == loadBuddyConfigFrom(ConfigAt(ListNamespace))
             sub    == IF cmd.options.commands THEN config.commands
                       ELSE IF cmd.options.shared THEN config.context
                       ELSE config.agents
         IN IF Len(sub.v) = 0 THEN repoPathOf(ListNamespace)
            ELSE repoPathOf(ListNamespace) \o <<"/">> \o sub.v

\* the names of the .md and .txt files under dir, relative to it, without
\* the extension
NamesUnder(dir) ==
    { SubSeq(f, Len(dir) + 2, Len(f) - (IF EndsWith(f, <<".">> \o S_md) THEN 3 ELSE 4)) :
        f \in { g \in files :
                  /\ IsPrefix(dir \o <<"/">>, g)
                  /\ EndsWith(g, <<".">> \o S_md) \/ EndsWith(g, <<".">> \o S_txt) } }

\* the names an invocation of list has printed, in the order printed
Printed == [k \in 1..(Len(stdout) - 1) |-> stdout[k + 1].list[1]]

ListedNames == cmd.kind = "list" /\ pc = "done" /\ HasTag(stdout, "in")

\* the names were printed in ascending order, equal names allowed
C18_Ascending ==
    ListedNames =>
        /\ {Printed[k] : k \in 1..Len(Printed)} = NamesUnder(ListedDir)
        /\ \A i, j \in 1..Len(Printed) :
              i < j => Printed[i] = Printed[j] \/ StrLess(Printed[i], Printed[j])

\* C18: the names list prints are those of the .md and .txt files under
\* the directory of the category (at any depth) without their extension,
\* in ascending order and each once, also when name.md and name.txt both
\* exist.
C18_SortedSet ==
    ListedNames =>
        /\ {Printed[k] : k \in 1..Len(Printed)} = NamesUnder(ListedDir)
        /\ \A i, j \in 1..Len(Printed) : i < j => StrLess(Printed[i], Printed[j])

\* the file the locator returned lies under the commands sub-path of its pool
CommandResolved ==
    /\ cmd.kind = "import"
    /\ sourcePath # NoFile
    /\ IsPrefix(repoPathOf(CmdParsed.repoName) \o <<"/">> \o S_commands \o <<"/">>,
                sourcePath)

\* C19: an import that resolved a file under a pool's commands sub-path
\* (import local/commands/<name>) has as destination
\* <cwd>/.claude/commands/<name>.md with -j and ~/.claude/commands/<name>.md
\* with -g, and writes nothing into a .claude/agents directory.
C19_CommandDestination ==
    CommandResolved =>
        LET name     == CmdParsed.filename \o <<".">> \o S_md
            commands == <<"/">> \o S_dotclaude \o <<"/">> \o S_commands \o <<"/">>
            agents   == <<"/">> \o S_dotclaude \o <<"/">> \o S_agents \o <<"/">>
        IN /\ cmd.personal => destPath = homedir \o commands \o name
           /\ (cmd.project /\ ~cmd.personal) => destPath = cwd \o commands \o name
           /\ \A k \in 1..Len(writes) : ~Includes(writes[k], agents)

=============================================================================
